---- MODULE Spec2Model ----
(***************************************************************************)
(* Forecasting and growth engine of job-trends-data (src/utils/predictor.py)*)
(*                                                                         *)
(* A posting is a record [month_year, job_type].  month_year, the string   *)
(* 'YYYY-MM' that data_processor derives from the posting date, is held as *)
(* the month number 12 * year + (month - 1); pd.to_datetime turns it into  *)
(* the first day of that month.  A DataFrame is the sequence of its rows,  *)
(* a Series the sequence of its (index, value) entries.                    *)
(* Fractions are exact: a rational is a pair <<num, den>> with den > 0.    *)
(***************************************************************************)
EXTENDS Integers, Sequences, FiniteSets, TLC

VARIABLES
    df,            \* the posting DataFrame handed to the predictor
    op,            \* "idle", or the name of the call whose result is held
    ts_out,        \* result of prepare_time_series_data
    growth_rates,  \* result of predict_job_type_growth
    growth_periods,\* the periods argument of that call
    fc,            \* result of plot_job_forecast
    hi,            \* result of calculate_job_market_health_index
    insights,      \* result of get_market_health_insights
    annotation,    \* latest-value annotation of plot_job_market_health_index
    regional,      \* result of calculate_regional_health_indices
    remembered,    \* a result kept by the caller, to compare a later call with
    saved_job_alerts,    \* st.session_state.saved_job_alerts
    alert_check_history, \* st.session_state.alert_check_history
    alert_out,     \* the last call on the alert store and what it returned
    checks,        \* the checks made so far: alert name and matches, in order
    last_data_refresh,   \* st.session_state["last_data_refresh"]
    clock,         \* datetime.datetime.now(), in half hours
    database,      \* the number of rows in the job_postings table
    refresh_out    \* the last schedule_data_refresh call and what it did

vars ==
    <<df, op, ts_out, growth_rates, growth_periods, fc, hi, insights, annotation,
      regional, remembered, saved_job_alerts, alert_check_history, alert_out,
      checks, last_data_refresh, clock, database, refresh_out>>

health_out == <<hi, insights, annotation, regional>>
predictor_out == <<ts_out, growth_rates, growth_periods, fc>>
alerts_out == <<saved_job_alerts, alert_check_history, alert_out, checks>>
live_data_out == <<last_data_refresh, clock, database, refresh_out>>
session_out == <<remembered, alerts_out, live_data_out>>

----------------------------------------------------------------------------
(* Bounds *)

MaxRows == 4        \* rows of the DataFrame built by AddPosting
NumMonths == 3      \* calendar months a posting of Spec may fall in
MaxPeriods == 2     \* the largest periods argument tried
NumMonthsF == 6     \* calendar months of a dataset loaded for forecasting
MaxStart == 6       \* largest first-month count of a trending dataset
NumMonthsH == 3     \* calendar months of a dataset handed to the health index
MaxWindow == 3      \* the largest moving-average window tried
NumMonthsR == 2     \* calendar months of a dataset on which calls are repeated

SortedTypes == <<"Backend", "ML">>
JobTypes == { SortedTypes[i] : i \in 1 .. Len(SortedTypes) }
None == "None"

Ym(y, m) == 12 * y + (m - 1)

\* Spec: postings fall in a window that crosses a year end.
Months == { Ym(2023, 11) + i : i \in 0 .. NumMonths - 1 }

\* SpecForecast: the first month of the loaded dataset.
FirstMonths == { Ym(2023, 1) + i : i \in 0 .. 11 }

----------------------------------------------------------------------------
(* Helpers on sequences and sets of integers *)

RECURSIVE SumSeq(_)
SumSeq(s) == IF s = <<>> THEN 0 ELSE Head(s) + SumSeq(Tail(s))

Min(S) == CHOOSE x \in S : \A y \in S : x <= y
Max(S) == CHOOSE x \in S : \A y \in S : x >= y

\* The elements of a finite set of integers, ascending.
RECURSIVE SortedSeq(_)
SortedSeq(S) == IF S = {} THEN <<>> ELSE <<Min(S)>> \o SortedSeq(S \ {Min(S)})

Abs(x) == IF x < 0 THEN -x ELSE x

----------------------------------------------------------------------------
(* Calendar: pd.to_datetime, pd.Timedelta, pd.date_range(freq='MS') *)

IsLeap(y) == (y % 4 = 0 /\ y % 100 # 0) \/ y % 400 = 0

DaysInMonth(y, m) ==
    IF m = 2 THEN (IF IsLeap(y) THEN 29 ELSE 28)
    ELSE IF m \in {4, 6, 9, 11} THEN 30 ELSE 31

\* pd.to_datetime('YYYY-MM'): the first day of the month.
to_datetime(k) == [y |-> k \div 12, m |-> (k % 12) + 1, d |-> 1]

\* strftime('%Y-%m') of a date, as a month number.
MonthKey(date) == Ym(date.y, date.m)

\* date + pd.Timedelta(days = n)
RECURSIVE AddDays(_, _)
AddDays(date, n) ==
    IF date.d + n <= DaysInMonth(date.y, date.m)
    THEN [date EXCEPT !.d = date.d + n]
    ELSE AddDays([y |-> IF date.m = 12 THEN date.y + 1 ELSE date.y,
                  m |-> IF date.m = 12 THEN 1 ELSE date.m + 1,
                  d |-> 1],
                 n - (DaysInMonth(date.y, date.m) - date.d + 1))

\* MonthBegin roll-forward: a date that is no month start moves to the next one.
RollForwardMS(date) ==
    IF date.d = 1 THEN date ELSE to_datetime(MonthKey(date) + 1)

\* pd.date_range(start, periods, freq='MS'), as month numbers.
date_range(start, periods) ==
    [i \in 1 .. periods |-> MonthKey(RollForwardMS(start)) + (i - 1)]

----------------------------------------------------------------------------
(* DataFrame operations *)

\* df[df['job_type'] == job_type]
FilterType(frame, job_type) == SelectSeq(frame, LAMBDA r : r.job_type = job_type)

MonthsOf(frame) == { frame[i].month_year : i \in 1 .. Len(frame) }

CountIn(frame, k) == Cardinality({ i \in 1 .. Len(frame) : frame[i].month_year = k })

\* frame.groupby('month_year').size(), index converted by to_datetime and sorted:
\* one entry per month that HAS a row, in calendar order.
GroupSize(frame) ==
    LET ms == SortedSeq(MonthsOf(frame))
    IN  [i \in 1 .. Len(ms) |-> [month |-> ms[i], count |-> CountIn(frame, ms[i])]]

\* df['job_type'].unique(): the job types in order of first appearance.
RECURSIVE unique(_)
unique(frame) ==
    IF frame = <<>> THEN <<>>
    ELSE LET rest == unique(SubSeq(frame, 1, Len(frame) - 1))
             jt == frame[Len(frame)].job_type
         IN  IF \E i \in 1 .. Len(rest) : rest[i] = jt THEN rest ELSE Append(rest, jt)

----------------------------------------------------------------------------
(* prepare_time_series_data *)

\* Mutant of resample_sum: the months without an entry are not materialised.
resample_nofill(series) == series

\* Series.resample('MS').sum().fillna(0): one bin per calendar month from the
\* first to the last index entry, each the sum of the entries in it.
resample_sum(series) ==
    IF series = <<>> THEN <<>>
    ELSE LET first == series[1].month
             last == series[Len(series)].month
         IN  [i \in 1 .. (last - first + 1) |->
                 [month |-> first + (i - 1),
                  count |-> SumSeq([j \in 1 .. Len(series) |->
                               IF series[j].month = first + (i - 1)
                               THEN series[j].count ELSE 0])]]

prepare_time_series_data(frame) == resample_sum(GroupSize(frame))

----------------------------------------------------------------------------
(* predict_job_type_growth *)

\* round(x, 1) of a rational x = num / den, in tenths: numpy rounds the scaled
\* value half to even.
RoundHalfEven(num, den) ==
    LET q == num \div den
        r == num % den
    IN  IF 2 * r < den THEN q
        ELSE IF 2 * r > den THEN q + 1
        ELSE IF q % 2 = 0 THEN q ELSE q + 1

Round1(x) == RoundHalfEven(10 * x[1], x[2])

\* monthly_counts of one job type: groupby('month_year').size(), sorted.
monthly_counts(frame, job_type) == GroupSize(FilterType(frame, job_type))

Counts(mc) == [i \in 1 .. Len(mc) |-> mc[i].count]

\* monthly_counts.iloc[-min(3, len):].mean()
current_count(mc) ==
    LET n == Len(mc)
        k == IF n < 3 THEN n ELSE 3
    IN  <<SumSeq(SubSeq(Counts(mc), n - k + 1, n)), k>>

\* LinearRegression().fit(X, y) with X = 0 .. n-1: least squares, as the pair
\* of rationals (slope, intercept) over the common denominators D and n * D.
LinearRegression(y) ==
    LET n == Len(y)
        Sx == SumSeq([i \in 1 .. n |-> i - 1])
        Sxx == SumSeq([i \in 1 .. n |-> (i - 1) * (i - 1)])
        Sy == SumSeq(y)
        Sxy == SumSeq([i \in 1 .. n |-> (i - 1) * y[i]])
        D == n * Sxx - Sx * Sx
        N == n * Sxy - Sx * Sy
    IN  [slope |-> <<N, D>>, intercept |-> <<Sy * D - N * Sx, n * D>>]

\* model.predict(x) = intercept + slope * x, over the denominator n * D.
Predict(model, n, x) ==
    <<model.intercept[1] + model.slope[1] * n * x, model.intercept[2]>>

\* Mutant of predicted_count: the predictions are summed, not averaged.
predicted_count_sum(mc, periods) ==
    LET n == Len(mc)
        model == LinearRegression(Counts(mc))
        future_y == [j \in 1 .. periods |-> Predict(model, n, n + j - 1)]
    IN  <<SumSeq([j \in 1 .. periods |-> future_y[j][1]]), future_y[1][2]>>

\* np.mean(model.predict(future_X)), future_X = n .. n + periods - 1
predicted_count(mc, periods) ==
    LET n == Len(mc)
        model == LinearRegression(Counts(mc))
        future_y == [j \in 1 .. periods |-> Predict(model, n, n + j - 1)]
    IN  <<SumSeq([j \in 1 .. periods |-> future_y[j][1]]), periods * future_y[1][2]>>

\* Mutant of growth_percent: the change is taken relative to the prediction.
growth_percent_of_predicted(cur, pred) ==
    IF cur[1] > 0 /\ pred[1] > 0
    THEN <<100 * (pred[1] * cur[2] - cur[1] * pred[2]), cur[2] * pred[1]>>
    ELSE <<0, 1>>

\* ((predicted_count - current_count) / current_count) * 100, or 0
growth_percent(cur, pred) ==
    IF cur[1] > 0
    THEN <<100 * (pred[1] * cur[2] - cur[1] * pred[2]), pred[2] * cur[1]>>
    ELSE <<0, 1>>

\* The row stored for one job type; Current, Predicted and Growth are in tenths.
GrowthRow(frame, job_type, periods) ==
    LET mc == monthly_counts(frame, job_type)
    IN  IF Len(mc) >= 2
        THEN LET cur == current_count(mc)
                 pred == predicted_count(mc, periods)
             IN  [job_type |-> job_type,
                  Current |-> Round1(cur),
                  Predicted |-> Round1(pred),
                  Growth |-> Round1(growth_percent(cur, pred))]
        ELSE [job_type |-> job_type, Current |-> 0, Predicted |-> 0, Growth |-> 0]

\* growth_rates.sort_values('Growth %', ascending=False): rows with equal
\* growth keep their order (the sort of a short column is an insertion sort).
RECURSIVE InsertDesc(_, _)
InsertDesc(sorted, row) ==
    IF sorted = <<>> THEN <<row>>
    ELSE IF Head(sorted).Growth >= row.Growth
         THEN <<Head(sorted)>> \o InsertDesc(Tail(sorted), row)
         ELSE <<row>> \o sorted

\* Mutant of sort_values: the rows are sorted ascending.
RECURSIVE InsertAsc(_, _)
InsertAsc(sorted, row) ==
    IF sorted = <<>> THEN <<row>>
    ELSE IF Head(sorted).Growth <= row.Growth
         THEN <<Head(sorted)>> \o InsertAsc(Tail(sorted), row)
         ELSE <<row>> \o sorted

RECURSIVE sort_values_ascending(_)
sort_values_ascending(rows) ==
    IF rows = <<>> THEN <<>>
    ELSE InsertAsc(sort_values_ascending(SubSeq(rows, 1, Len(rows) - 1)), rows[Len(rows)])

RECURSIVE sort_values(_)
sort_values(rows) ==
    IF rows = <<>> THEN <<>>
    ELSE InsertDesc(sort_values(SubSeq(rows, 1, Len(rows) - 1)), rows[Len(rows)])

\* Mutant of predict_job_type_growth: a job type with fewer than 2 monthly
\* data points gets no row.
predict_job_type_growth_omit(frame, periods) ==
    LET job_types == SelectSeq(unique(frame),
                               LAMBDA jt : Len(monthly_counts(frame, jt)) >= 2)
    IN  sort_values([i \in 1 .. Len(job_types) |-> GrowthRow(frame, job_types[i], periods)])

predict_job_type_growth(frame, periods) ==
    LET job_types == unique(frame)
    IN  sort_values([i \in 1 .. Len(job_types) |-> GrowthRow(frame, job_types[i], periods)])

----------------------------------------------------------------------------
(* forecast_job_trends and plot_job_forecast.  Forecast values and band     *)
(* limits are fixed-point numbers in hundredths.                           *)

seasonal_periods == 3
z_value_x100 == 196

\* The largest r with r * r <= x.
ISqrt(x) == CHOOSE r \in 0 .. x : r * r <= x /\ x < (r + 1) * (r + 1)

\* Series.std() (sample standard deviation, ddof = 1), in hundredths.
std(values) ==
    LET n == Len(values)
        S == SumSeq(values)
        SS == SumSeq([i \in 1 .. n |-> values[i] * values[i]])
    IN  ISqrt((10000 * (n * SS - S * S)) \div (n * (n - 1)))

\* Whether the series rises or falls by the same amount d at every step.
IsLinear(values, d) == \A i \in 1 .. Len(values) - 1 : values[i + 1] - values[i] = d

\* What ExponentialSmoothing(...).fit(optimized=True) ends with for a series it
\* accepts: the last level, the last trend and the last seasonal_periods
\* seasonal terms.  The optimizer minimises the squared one-step errors.  For
\* an exactly linear series (a constant one included) the minimum is 0 and
\* forces level = last observation, trend = the common step, seasonal terms
\* equal.  For any other series the fitted state has no closed form: the model
\* keeps the level at the last observation and lets the seasonal terms vary.
FitSeasons == { <<0, 0, 0>>, <<1, 0, -1>> }
Fits(ts_data) ==
    LET y == Counts(ts_data)
        n == Len(y)
    IN  IF IsLinear(y, y[n] - y[n - 1])
        THEN { [level |-> y[n], trend |-> y[n] - y[n - 1], season |-> <<0, 0, 0>>] }
        ELSE { [level |-> y[n], trend |-> 0, season |-> sn] : sn \in FitSeasons }

\* No fitted state: the model raised.
NoFit == [level |-> 0, trend |-> 0, season |-> <<0, 0, 0>>]

\* ExponentialSmoothing(ts_data, trend='add', seasonal='add', seasonal_periods=3):
\* the seasonal initialisation needs two full seasonal cycles and raises
\* ValueError on a shorter series.
ModelRaises(ts_data) == Len(ts_data) < 2 * seasonal_periods

\* fitted_model.forecast(periods): level + h * trend + seasonal term of step h.
HWForecast(fit, periods) ==
    [h \in 1 .. periods |->
        100 * (fit.level + h * fit.trend + fit.season[((h - 1) % seasonal_periods) + 1])]

\* The outcome of forecast_job_trends(df, periods, job_type) under fitted state
\* fit: an exception of the model, or (forecast, ts_data, forecast_dates).
forecast_job_trends(frame, periods, job_type, fit) ==
    LET filtered_df == IF job_type # None THEN FilterType(frame, job_type) ELSE frame
        ts_data == GroupSize(filtered_df)
    IN  IF ModelRaises(ts_data)
        THEN [status |-> "raised", endog |-> ts_data,
              forecast |-> <<>>, historical |-> <<>>, forecast_dates |-> <<>>]
        ELSE LET last_date == to_datetime(ts_data[Len(ts_data)].month)
                 forecast_dates == date_range(AddDays(last_date, 30), periods)
             IN  [status |-> "ok", endog |-> ts_data,
                  forecast |-> HWForecast(fit, periods),
                  historical |-> ts_data,
                  forecast_dates |-> forecast_dates]

\* lower_bound.clip(lower=0)
clip_lower(x) == IF x < 0 THEN 0 ELSE x

\* The traces plot_job_forecast draws, or the exception it lets through.
plot_job_forecast(frame, periods, job_type, fit) ==
    LET r == forecast_job_trends(frame, periods, job_type, fit)
    IN  IF r.status = "raised"
        THEN [status |-> "raised", job_type |-> job_type, periods |-> periods,
              endog |-> r.endog, historical |-> <<>>, forecast_dates |-> <<>>,
              forecast |-> <<>>, upper_bound |-> <<>>, lower_bound |-> <<>>]
        ELSE LET std_dev == std(Counts(r.historical))
                 ci_width == (z_value_x100 * std_dev) \div 100
             IN  [status |-> "ok", job_type |-> job_type, periods |-> periods,
                  endog |-> r.endog, historical |-> r.historical,
                  forecast_dates |-> r.forecast_dates,
                  forecast |-> r.forecast,
                  upper_bound |-> [i \in 1 .. periods |-> r.forecast[i] + ci_width],
                  lower_bound |-> [i \in 1 .. periods |->
                                      clip_lower(r.forecast[i] - ci_width)]]

----------------------------------------------------------------------------
(* calculate_job_market_health_index (src/utils/market_health.py).          *)
(* A posting handed to the health index also has a company and a location; *)
(* a location is the sequence of its characters.  A float is a reduced     *)
(* rational <<num, den>> with den > 0, or NaN.                             *)

NaN == <<0, 0>>
IsNum(a) == a[2] # 0

RECURSIVE GCD(_, _)
GCD(a, b) == IF b = 0 THEN a ELSE GCD(b, a % b)

\* num / den in lowest terms, den > 0.
Rat(num, den) ==
    LET g == GCD(Abs(num), Abs(den))
        sg == IF den < 0 THEN -1 ELSE 1
    IN  <<sg * (num \div g), sg * (den \div g)>>

RAdd(a, b) ==
    IF ~IsNum(a) \/ ~IsNum(b) THEN NaN
    ELSE LET l == (a[2] \div GCD(a[2], b[2])) * b[2]
         IN  Rat(a[1] * (l \div a[2]) + b[1] * (l \div b[2]), l)

RNeg(a) == IF IsNum(a) THEN <<-a[1], a[2]>> ELSE NaN
RSub(a, b) == RAdd(a, RNeg(b))

RMul(a, b) ==
    IF ~IsNum(a) \/ ~IsNum(b) THEN NaN
    ELSE LET x == Rat(a[1], b[2])
             y == Rat(b[1], a[2])
         IN  Rat(x[1] * y[1], x[2] * y[2])

\* a / b for b # 0
RDiv(a, b) == IF ~IsNum(a) \/ ~IsNum(b) THEN NaN ELSE RMul(a, Rat(b[2], b[1]))

\* Float comparisons: every comparison with NaN is False.
RLt(a, b) == IsNum(a) /\ IsNum(b) /\ a[1] * b[2] < b[1] * a[2]
RGt(a, b) == RLt(b, a)
RGe(a, b) == IsNum(a) /\ IsNum(b) /\ a[1] * b[2] >= b[1] * a[2]
RLe(a, b) == RGe(b, a)

RECURSIVE RSum(_)
RSum(q) == IF q = <<>> THEN <<0, 1>> ELSE RAdd(Head(q), RSum(Tail(q)))

\* Series.min() / Series.max(): NaN entries are skipped; NaN when none is left.
RECURSIVE RMin(_)
RMin(q) ==
    IF q = <<>> THEN NaN
    ELSE LET m == RMin(Tail(q))
         IN  IF ~IsNum(Head(q)) THEN m
             ELSE IF ~IsNum(m) \/ RLt(Head(q), m) THEN Head(q) ELSE m

RECURSIVE RMax(_)
RMax(q) ==
    IF q = <<>> THEN NaN
    ELSE LET m == RMax(Tail(q))
         IN  IF ~IsNum(Head(q)) THEN m
             ELSE IF ~IsNum(m) \/ RGt(Head(q), m) THEN Head(q) ELSE m

\* The largest r with r * r <= x, by Newton's iteration.
RECURSIVE NewtonSqrt(_, _)
NewtonSqrt(x, r) ==
    LET nxt == (r + x \div r) \div 2
    IN  IF nxt >= r THEN r ELSE NewtonSqrt(x, nxt)

IntSqrt(x) == IF x = 0 THEN 0 ELSE NewtonSqrt(x, x)

(* Strings *)

UpperCase == <<"A", "B", "C", "D", "E", "F", "G", "H", "I", "J", "K", "L", "M",
               "N", "O", "P", "Q", "R", "S", "T", "U", "V", "W", "X", "Y", "Z">>
LowerCase == <<"a", "b", "c", "d", "e", "f", "g", "h", "i", "j", "k", "l", "m",
               "n", "o", "p", "q", "r", "s", "t", "u", "v", "w", "x", "y", "z">>

\* str.lower()
lower(str) ==
    [i \in 1 .. Len(str) |->
        IF \E j \in 1 .. Len(UpperCase) : UpperCase[j] = str[i]
        THEN LowerCase[CHOOSE j \in 1 .. Len(UpperCase) : UpperCase[j] = str[i]]
        ELSE str[i]]

\* str.contains(pat), pat a literal
contains(str, pat) ==
    \E i \in 1 .. Len(str) - Len(pat) + 1 : SubSeq(str, i, i + Len(pat) - 1) = pat

remote == <<"r", "e", "m", "o", "t", "e">>

\* Mutant of is_remote: the location is matched as written.
is_remote_case_sensitive(location) == contains(location, remote)

\* month_df['location'].str.lower().str.contains('remote')
is_remote(location) == contains(lower(location), remote)

(* Monthly statistics *)

Factors == {"job_count", "company_diversity", "job_type_diversity",
            "location_diversity", "remote_ratio"}

\* The weights used when the caller gives none, in tenths.
default_weights ==
    [f \in Factors |->
        CASE f = "job_count" -> 4
          [] f = "company_diversity" -> 2
          [] f = "job_type_diversity" -> 2
          [] f = "location_diversity" -> 1
          [] f = "remote_ratio" -> 1]

\* The rows of one month_year group.
MonthRowsOf(frame, k) == SelectSeq(frame, LAMBDA r : r.month_year = k)

\* The statistics of one month (market_health.py lines 45-63).
month_stats(k, month_df) ==
    LET job_count == Len(month_df)
        remote_count == Len(SelectSeq(month_df, LAMBDA r : is_remote(r.location)))
    IN  [month_year |-> k,
         raw |-> [f \in Factors |->
             CASE f = "job_count" -> <<job_count, 1>>
               [] f = "company_diversity" ->
                     <<Cardinality({ month_df[i].company : i \in 1 .. job_count }), 1>>
               [] f = "job_type_diversity" ->
                     <<Cardinality({ month_df[i].job_type : i \in 1 .. job_count }), 1>>
               [] f = "location_diversity" ->
                     <<Cardinality({ month_df[i].location : i \in 1 .. job_count }), 1>>
               [] f = "remote_ratio" ->
                     IF job_count > 0 THEN Rat(remote_count, job_count) ELSE <<0, 1>>]]

\* Mutant of monthly_stats: a row for every calendar month from the first to
\* the last, also for a month without postings.
monthly_stats_every_month(frame) ==
    IF frame = <<>> THEN <<>>
    ELSE [i \in 1 .. Max(MonthsOf(frame)) - Min(MonthsOf(frame)) + 1 |->
             month_stats(Min(MonthsOf(frame)) + (i - 1),
                         MonthRowsOf(frame, Min(MonthsOf(frame)) + (i - 1)))]

\* One row per month_year group, sorted by date (lines 41-73).
monthly_stats(frame) ==
    LET ms == SortedSeq(MonthsOf(frame))
    IN  [i \in 1 .. Len(ms) |-> month_stats(ms[i], MonthRowsOf(frame, ms[i]))]

(* Normalisation, composite, rescaling and smoothing *)

RECURSIVE LCMOfDens(_)
LCMOfDens(q) ==
    IF q = <<>> THEN 1
    ELSE LET l == LCMOfDens(Tail(q))
         IN  (l \div GCD(l, Head(q)[2])) * Head(q)[2]

\* d / sqrt(V) to the nearest hundredth, for V > 0.
DivSqrt(d, V) ==
    LET a == Abs(d)
        q0 == (10000 * a) \div IntSqrt(10000 * V)
        q == CHOOSE c \in (IF q0 < 3 THEN 0 ELSE q0 - 3) .. (q0 + 3) :
                /\ c = 0 \/ (2 * c - 1) * (2 * c - 1) * V <= 40000 * a * a
                /\ 40000 * a * a < (2 * c + 1) * (2 * c + 1) * V
    IN  Rat(IF d < 0 THEN -q ELSE q, 100)

\* scipy.stats.zscore(values): (x - mean) / std with the population standard
\* deviation, to hundredths; 0 / 0 = NaN for every entry when all values are
\* equal.
zscore(values) ==
    LET n == Len(values)
        l == LCMOfDens(values)
        X == [i \in 1 .. n |-> values[i][1] * (l \div values[i][2])] \o <<>>
        S == SumSeq(X)
        V == n * SumSeq([i \in 1 .. n |-> X[i] * X[i]]) - S * S
    IN  [i \in 1 .. n |->
            IF V = 0 THEN NaN
            ELSE DivSqrt(n * X[i] - S, V)]

\* Series.clip(lo, hi); NaN stays NaN.
clip(x, lo, up) ==
    IF ~IsNum(x) THEN NaN
    ELSE IF RLt(x, <<lo, 1>>) THEN <<lo, 1>>
    ELSE IF RGt(x, <<up, 1>>) THEN <<up, 1>> ELSE x

\* Mutant of minmax_scaling: the values are scaled to [0, 1].
minmax_unit(values) ==
    LET min_val == RMin(values)
        max_val == RMax(values)
    IN  [i \in 1 .. Len(values) |->
            IF RGt(max_val, min_val)
            THEN RDiv(RSub(values[i], min_val), RSub(max_val, min_val))
            ELSE <<0, 1>>]

\* (x - min) / (max - min) * 2 - 1, or 0 when max == min (lines 85-90).
minmax_scaling(values) ==
    LET min_val == RMin(values)
        max_val == RMax(values)
    IN  [i \in 1 .. Len(values) |->
            IF RGt(max_val, min_val)
            THEN RSub(RMul(RDiv(RSub(values[i], min_val), RSub(max_val, min_val)),
                           <<2, 1>>), <<1, 1>>)
            ELSE <<0, 1>>]

\* The column f'{factor}_norm' (lines 79-90).
normalize(values) ==
    IF Len(values) >= 3
    THEN LET z == zscore(values) IN [i \in 1 .. Len(values) |-> clip(z[i], -3, 3)]
    ELSE minmax_scaling(values)

\* The elements of a finite set, in some order.
RECURSIVE SeqOfSet(_)
SeqOfSet(S) ==
    IF S = {} THEN <<>>
    ELSE LET x == CHOOSE y \in S : TRUE IN <<x>> \o SeqOfSet(S \ {x})

\* The factors of weights that get a '_norm' column and enter the composite
\* (lines 76-77 and 94-95): those that are columns of monthly_stats_df.
applied_weights(weights) == [f \in (DOMAIN weights) \cap Factors |-> weights[f]]

\* health_index_scaled (lines 99-105)
\* Mutant of rescale: the composite is scaled to [0, 1], not to [0, 100].
rescale_unit(health_index) ==
    LET min_index == RMin(health_index)
        max_index == RMax(health_index)
    IN  [i \in 1 .. Len(health_index) |->
            IF RGt(max_index, min_index)
            THEN RDiv(RSub(health_index[i], min_index), RSub(max_index, min_index))
            ELSE <<50, 1>>]

rescale(health_index) ==
    LET min_index == RMin(health_index)
        max_index == RMax(health_index)
    IN  [i \in 1 .. Len(health_index) |->
            IF RGt(max_index, min_index)
            THEN RMul(RDiv(RSub(health_index[i], min_index),
                           RSub(max_index, min_index)), <<100, 1>>)
            ELSE <<50, 1>>]

\* Series.rolling(window=window).mean(): NaN until the window is full.
rolling_mean(values, window) ==
    [i \in 1 .. Len(values) |->
        IF i < window THEN NaN
        ELSE RDiv(RSum(SubSeq(values, i - window + 1, i)), <<window, 1>>)]

\* Mutant of moving_average: once the caller holds an earlier result the
\* smoothing is skipped (state left by an earlier call leaks into the next).
moving_average_once(scaled, window) ==
    IF remembered.op = "none" /\ Len(scaled) >= window
    THEN rolling_mean(scaled, window) ELSE scaled

\* health_index_ma (lines 108-111)
moving_average(scaled, window) ==
    IF Len(scaled) >= window THEN rolling_mean(scaled, window) ELSE scaled

\* Series.diff(): NaN for the first entry.
diff(values) ==
    [i \in 1 .. Len(values) |-> IF i = 1 THEN NaN ELSE RSub(values[i], values[i - 1])]

\* The DataFrame calculate_job_market_health_index returns, with the weights
\* its composite applied.
calculate_job_market_health_index(frame, window, weights) ==
    LET stats == monthly_stats(frame) \o <<>>
        n == Len(stats)
        applied == applied_weights(weights)
        order == SeqOfSet(DOMAIN applied)
        \* columns[j] is the column f'{order[j]}_norm'
        columns == [j \in 1 .. Len(order) |->
                       normalize([i \in 1 .. n |-> stats[i].raw[order[j]]] \o <<>>) \o <<>>]
                   \o <<>>
        norm == [f \in DOMAIN applied |-> columns[CHOOSE j \in 1 .. Len(order) : order[j] = f]]
        health_index ==
            [i \in 1 .. n |->
                RSum([j \in 1 .. Len(order) |->
                         RMul(columns[j][i], Rat(applied[order[j]], 10))])] \o <<>>
        scaled == rescale(health_index) \o <<>>
        ma == moving_average(scaled, window)
        mom == diff(scaled)
    IN  [applied |-> applied,
         rows |-> IF n = 0 THEN <<>>
                  ELSE [i \in 1 .. n |->
                          [month_year |-> stats[i].month_year,
                           raw |-> stats[i].raw,
                           norm |-> [f \in DOMAIN applied |-> norm[f][i]],
                           health_index |-> health_index[i],
                           health_index_scaled |-> scaled[i],
                           health_index_ma |-> ma[i],
                           mom_change |-> mom[i]]] \o <<>>]

(* Sentiment and trend *)

\* Mutant of insights_sentiment: "Strong" starts at 50.
insights_sentiment_50(s) ==
    IF RGe(s, <<70, 1>>) THEN "Very Strong"
    ELSE IF RGe(s, <<50, 1>>) THEN "Strong"
    ELSE IF RGe(s, <<45, 1>>) THEN "Stable"
    ELSE IF RGe(s, <<30, 1>>) THEN "Weak"
    ELSE "Very Weak"

\* get_market_health_insights, lines 244-263
insights_sentiment(s) ==
    IF RGe(s, <<70, 1>>) THEN "Very Strong"
    ELSE IF RGe(s, <<55, 1>>) THEN "Strong"
    ELSE IF RGe(s, <<45, 1>>) THEN "Stable"
    ELSE IF RGe(s, <<30, 1>>) THEN "Weak"
    ELSE "Very Weak"

\* plot_job_market_health_index, lines 182-196
plot_sentiment(s) ==
    IF RGe(s, <<70, 1>>) THEN "Very Strong"
    ELSE IF RGe(s, <<55, 1>>) THEN "Strong"
    ELSE IF RGe(s, <<45, 1>>) THEN "Stable"
    ELSE IF RGe(s, <<30, 1>>) THEN "Weak"
    ELSE "Very Weak"

\* get_market_health_insights, lines 266-283
insights_trend(rows) ==
    LET n == Len(rows)
    IN  IF n >= 3
        THEN IF RGt(rows[n].health_index_ma, rows[n - 2].health_index_ma) THEN "Improving"
             ELSE IF RLt(rows[n].health_index_ma, rows[n - 2].health_index_ma) THEN "Declining"
             ELSE "Stable"
        ELSE "Insufficient Data"

\* Mutant of get_market_health_insights: without the guard of lines 237-238
\* health_df.iloc[-1] raises for an empty health_df.
get_market_health_insights_unguarded(frame, window) ==
    LET health_df == calculate_job_market_health_index(frame, window, default_weights).rows
        n == Len(health_df)
    IN  IF n = 0
        THEN [status |-> "raised", has_data |-> TRUE, window |-> window, rows |-> <<>>,
              current_index |-> NaN, sentiment |-> "", trend |-> ""]
        ELSE [status |-> "done", has_data |-> TRUE, window |-> window, rows |-> health_df,
              current_index |-> health_df[n].health_index_ma,
              sentiment |-> insights_sentiment(health_df[n].health_index_ma),
              trend |-> insights_trend(health_df)]

get_market_health_insights(frame, window) ==
    LET health_df == calculate_job_market_health_index(frame, window, default_weights).rows
        n == Len(health_df)
    IN  IF n = 0
        THEN [status |-> "done", has_data |-> FALSE, window |-> window, rows |-> <<>>,
              current_index |-> NaN, sentiment |-> "", trend |-> ""]
        ELSE [status |-> "done", has_data |-> TRUE, window |-> window, rows |-> health_df,
              current_index |-> health_df[n].health_index_ma,
              sentiment |-> insights_sentiment(health_df[n].health_index_ma),
              trend |-> insights_trend(health_df)]

\* The annotation plot_job_market_health_index puts on the latest value.
plot_job_market_health_index(frame, window) ==
    LET health_df == calculate_job_market_health_index(frame, window, default_weights).rows
        n == Len(health_df)
    IN  IF n = 0
        THEN [status |-> "done", has_data |-> FALSE, latest_index |-> NaN, sentiment |-> ""]
        ELSE [status |-> "done", has_data |-> TRUE,
              latest_index |-> health_df[n].health_index_ma,
              sentiment |-> plot_sentiment(health_df[n].health_index_ma)]

(* calculate_regional_health_indices (src/utils/market_health.py) and       *)
(* extract_region (src/utils/visualizer.py)                                 *)

\* The dictionary `regions` of extract_region after regions.update(us_regions),
\* in its iteration order.
RegionPatterns ==
   << [region |-> "Remote",
       patterns |-> <<
            <<"R", "e", "m", "o", "t", "e">> >>],
      [region |-> "Hybrid",
       patterns |-> <<
            <<"H", "y", "b", "r", "i", "d">> >>],
      [region |-> "North America",
       patterns |-> <<
            <<"C", "a", "n", "a", "d", "a">>, <<"T", "o", "r", "o", "n",
            "t", "o">>, <<"V", "a", "n", "c", "o", "u", "v", "e", "r">>,
            <<"M", "o", "n", "t", "r", "e", "a", "l">> >>],
      [region |-> "Europe",
       patterns |-> <<
            <<"U", "K">>, <<"L", "o", "n", "d", "o", "n">>, <<"M", "a",
            "n", "c", "h", "e", "s", "t", "e", "r">>, <<"B", "e", "r",
            "l", "i", "n">>, <<"M", "u", "n", "i", "c", "h">>, <<"A",
            "m", "s", "t", "e", "r", "d", "a", "m">>, <<"P", "a", "r",
            "i", "s">>, <<"D", "u", "b", "l", "i", "n">>, <<"I", "r",
            "e", "l", "a", "n", "d">>, <<"G", "e", "r", "m", "a", "n",
            "y">>, <<"F", "r", "a", "n", "c", "e">>, <<"N", "e", "t",
            "h", "e", "r", "l", "a", "n", "d", "s">> >>],
      [region |-> "Asia",
       patterns |-> <<
            <<"S", "i", "n", "g", "a", "p", "o", "r", "e">>, <<"T", "o",
            "k", "y", "o">>, <<"B", "a", "n", "g", "a", "l", "o", "r",
            "e">>, <<"H", "y", "d", "e", "r", "a", "b", "a", "d">>,
            <<"S", "e", "o", "u", "l">>, <<"H", "o", "n", "g", " ", "K",
            "o", "n", "g">>, <<"I", "n", "d", "i", "a">>, <<"J", "a",
            "p", "a", "n">>, <<"S", "o", "u", "t", "h", " ", "K", "o",
            "r", "e", "a">> >>],
      [region |-> "Australia",
       patterns |-> <<
            <<"S", "y", "d", "n", "e", "y">>, <<"M", "e", "l", "b", "o",
            "u", "r", "n", "e">>, <<"A", "u", "s", "t", "r", "a", "l",
            "i", "a">> >>],
      [region |-> "US West",
       patterns |-> <<
            <<"S", "a", "n", " ", "F", "r", "a", "n", "c", "i", "s",
            "c", "o">>, <<"L", "o", "s", " ", "A", "n", "g", "e", "l",
            "e", "s">>, <<"S", "e", "a", "t", "t", "l", "e">>, <<"P",
            "o", "r", "t", "l", "a", "n", "d">>, <<"D", "e", "n", "v",
            "e", "r">>, <<"P", "h", "o", "e", "n", "i", "x">>, <<"S",
            "a", "l", "t", " ", "L", "a", "k", "e", " ", "C", "i", "t",
            "y">>, <<"C", "A">>, <<"W", "A">>, <<"O", "R">>, <<"C",
            "O">>, <<"A", "Z">>, <<"U", "T">>, <<"N", "V">> >>],
      [region |-> "US East",
       patterns |-> <<
            <<"N", "e", "w", " ", "Y", "o", "r", "k">>, <<"B", "o", "s",
            "t", "o", "n">>, <<"A", "t", "l", "a", "n", "t", "a">>,
            <<"M", "i", "a", "m", "i">>, <<"R", "a", "l", "e", "i", "g",
            "h">>, <<"W", "a", "s", "h", "i", "n", "g", "t", "o", "n">>,
            <<"P", "h", "i", "l", "a", "d", "e", "l", "p", "h", "i",
            "a">>, <<"N", "Y">>, <<"M", "A">>, <<"G", "A">>, <<"F",
            "L">>, <<"N", "C">>, <<"D", "C">>, <<"P", "A">>, <<"V",
            "A">> >>],
      [region |-> "US Central",
       patterns |-> <<
            <<"C", "h", "i", "c", "a", "g", "o">>, <<"A", "u", "s", "t",
            "i", "n">>, <<"D", "a", "l", "l", "a", "s">>, <<"M", "i",
            "n", "n", "e", "a", "p", "o", "l", "i", "s">>, <<"D", "e",
            "t", "r", "o", "i", "t">>, <<"N", "a", "s", "h", "v", "i",
            "l", "l", "e">>, <<"T", "X">>, <<"I", "L">>, <<"M", "N">>,
            <<"M", "I">>, <<"T", "N">> >>] >>

\* The first region, in dictionary order, one of whose patterns is in the
\* lower-cased location; 'Other' when there is none.
extract_region(location) ==
    LET loc == lower(location)
        hits == { r \in 1 .. Len(RegionPatterns) :
                    \E p \in 1 .. Len(RegionPatterns[r].patterns) :
                        contains(loc, lower(RegionPatterns[r].patterns[p])) }
    IN  IF hits = {} THEN "Other" ELSE RegionPatterns[Min(hits)].region

\* The region names in the sorted order groupby('region') yields its groups.
SortedRegions ==
    <<"Asia", "Australia", "Europe", "Hybrid", "North America", "Other", "Remote",
      "US Central", "US East", "US West">>

\* regional_df: a copy of df with the column 'region'.
with_region(frame) ==
    [i \in 1 .. Len(frame) |->
        [month_year |-> frame[i].month_year, job_type |-> frame[i].job_type,
         company |-> frame[i].company, location |-> frame[i].location,
         region |-> extract_region(frame[i].location)]] \o <<>>

\* Mutant of region_df: every region is handed the postings of all regions.
region_df_all(regional_df, region) == regional_df

\* The group of one region.
region_df(regional_df, region) == SelectSeq(regional_df, LAMBDA r : r.region = region)

\* The row appended for a region (lines 415-425).
region_row(region, region_health) ==
    LET latest == region_health[Len(region_health)]
    IN  [region |-> region, health_index |-> latest.health_index_scaled, raw |-> latest.raw]

\* sort_values('health_index', ascending=False); rows of equal index keep
\* their order.
RECURSIVE InsertByIndex(_, _)
InsertByIndex(row, sorted) ==
    IF sorted = <<>> THEN <<row>>
    ELSE IF RGt(row.health_index, Head(sorted).health_index)
         THEN <<row>> \o sorted
         ELSE <<Head(sorted)>> \o InsertByIndex(row, Tail(sorted))

RECURSIVE sort_by_index(_)
sort_by_index(rows) ==
    IF rows = <<>> THEN <<>>
    ELSE LET n == Len(rows)
         IN  InsertByIndex(rows[n], sort_by_index(SubSeq(rows, 1, n - 1)))

\* The rows of region_indices for the n first regions of SortedRegions.
RECURSIVE region_indices(_, _)
region_indices(regional_df, n) ==
    IF n = 0 THEN <<>>
    ELSE LET group == region_df(regional_df, SortedRegions[n])
             region_health ==
                 calculate_job_market_health_index(group, 3, default_weights).rows \o <<>>
         IN  region_indices(regional_df, n - 1) \o
             (IF group = <<>> \/ Len(region_health) = 0 THEN <<>>
              ELSE <<region_row(SortedRegions[n], region_health)>>)

calculate_regional_health_indices(frame) ==
    sort_by_index(region_indices(with_region(frame), Len(SortedRegions)))

----------------------------------------------------------------------------
(* job_alerts.py.  A posting's identifier is its index label, which for a   *)
(* frame that is only appended to is its position.  A dict of the session  *)
(* state is a function of its keys.                                        *)

lookback_days == 1

\* A datetime kept in the session state is <<t>>; a key holding None is <<>>.
Never == <<>>
At(t) == <<t>>

\* d[k] = v
Put(d, k, v) == [x \in (DOMAIN d) \cup {k} |-> IF x = k THEN v ELSE d[x]]

\* del d[k]
Del(d, k) == [x \in (DOMAIN d) \ {k} |-> d[x]]

\* alert_df.sort_values('date', ascending=False): the labels by date, latest
\* first, rows of one date in their order in the frame.
RECURSIVE sort_by_date(_, _)
sort_by_date(frame, ids) ==
    IF ids = {} THEN <<>>
    ELSE LET latest == Max({ frame[i].date : i \in ids })
             first == Min({ i \in ids : frame[i].date = latest })
         IN  <<first>> \o sort_by_date(frame, ids \ {first})

\* The recency filter: the rows dated no earlier than recent_days before the
\* latest of the rows that passed the other filters.
recent(frame, ids, recent_days) ==
    IF ids = {} THEN {}
    ELSE LET latest_date == Max({ frame[i].date : i \in ids })
             cutoff_date == latest_date - recent_days
         IN  { i \in ids : frame[i].date >= cutoff_date }

\* The kinds of posting of the datasets: one on site and two remote ones,
\* 'Remote' and 'US REMOTE'.
OnSite == [job_type |-> "Backend", company |-> "Acme", location |-> <<"N", "Y">>]
RemoteML ==
    [job_type |-> "ML", company |-> "Globex",
     location |-> <<"R", "e", "m", "o", "t", "e">>]
RemoteUS ==
    [job_type |-> "Backend", company |-> "Acme",
     location |-> <<"U", "S", " ", "R", "E", "M", "O", "T", "E">>]

Dated(p, d) ==
    [date |-> d, job_type |-> p.job_type, company |-> p.company, location |-> p.location]

\* The postings a feed can bring: the day is counted from the first feed.
DatedPostings == { Dated(OnSite, 0), Dated(RemoteML, 0), Dated(RemoteML, 2) }

AnyJob ==
    [job_types |-> {}, companies |-> {}, locations |-> {}, remote_only |-> FALSE,
     recent_days |-> 0, skills |-> {}]
RemoteJob ==
    [job_types |-> {"ML", "Backend"}, companies |-> {"Globex"}, locations |-> {<<"R", "E", "M">>},
     remote_only |-> TRUE, recent_days |-> 7, skills |-> {"python"}]

AlertPreferences == {AnyJob, RemoteJob}

\* Series.str.contains(pat, case=False) of one entry, for a pattern of letters.
str_contains(str, pat) == contains(lower(str) \o <<>>, lower(pat) \o <<>>)

\* str_contains on the locations of the postings and the patterns of the
\* preferences, evaluated once.
location_contains ==
    [str \in { p.location : p \in DatedPostings },
     pat \in {remote} \cup UNION { p.locations : p \in AlertPreferences } |->
        str_contains(str, pat)]

\* create_job_alert: the index labels of the matching postings, sorted by
\* date.  The frames have no 'skills' column, so the skills filter is skipped.
create_job_alert(frame, preferences) ==
    LET by_type == IF preferences.job_types # {}
                   THEN { i \in 1 .. Len(frame) : frame[i].job_type \in preferences.job_types }
                   ELSE 1 .. Len(frame)
        by_company == IF preferences.companies # {}
                      THEN { i \in by_type : frame[i].company \in preferences.companies }
                      ELSE by_type
        by_location == IF preferences.locations # {}
                       THEN { i \in by_company :
                                \E l \in preferences.locations :
                                    location_contains[frame[i].location, l] }
                       ELSE by_company
        by_remote == IF preferences.remote_only
                     THEN { i \in by_location : location_contains[frame[i].location, remote] }
                     ELSE by_location
        by_date == IF preferences.recent_days > 0
                   THEN recent(frame, by_remote, preferences.recent_days)
                   ELSE by_remote
    IN  sort_by_date(frame, by_date)

\* set(recent_matches.index.tolist())
IndexSet(matches) == { matches[i] : i \in 1 .. Len(matches) }

NoHistory == [last_check |-> Never, last_matches |-> {}]

\* Mutant of alert_history_get: one history is shared by all the alert names.
alert_history_shared(history, alert_name) ==
    IF DOMAIN history # {} THEN history[CHOOSE n \in DOMAIN history : TRUE] ELSE NoHistory

\* st.session_state.alert_check_history.get(alert_name, {...})
alert_history_get(history, alert_name) ==
    IF alert_name \in DOMAIN history THEN history[alert_name] ELSE NoHistory

\* check_alert_for_new_matches: what it returns (the labels of new_matches and
\* is_first_check) and the history entry it stores.
check_alert_for_new_matches(history, now, alert_name, preferences, frame) ==
    LET recent_preferences == [preferences EXCEPT !.recent_days = lookback_days]
        recent_matches == create_job_alert(frame, recent_preferences)
        alert_history == alert_history_get(history, alert_name)
        current_match_ids == IndexSet(recent_matches)
    IN  [new_matches |-> IF alert_history.last_check = Never
                         THEN current_match_ids
                         ELSE current_match_ids \ alert_history.last_matches,
         is_first_check |-> (alert_history.last_check = Never),
         alert_history |-> [last_check |-> At(now), last_matches |-> current_match_ids]]

\* Mutant of delete_user_alert_history: deleting an alert forgets its checks.
delete_user_alert_forget(history, name) == Del(history, name)

\* What delete_user_alert does to alert_check_history: nothing.
delete_user_alert_history(history, name) == history

----------------------------------------------------------------------------
(* State machine *)

NoHealth == [status |-> "none", window |-> 0, override |-> FALSE, applied |-> <<>>, rows |-> <<>>]
NoInsights ==
    [status |-> "none", has_data |-> FALSE, window |-> 0, rows |-> <<>>,
     current_index |-> NaN, sentiment |-> "", trend |-> ""]
NoAnnotation == [status |-> "none", has_data |-> FALSE, latest_index |-> NaN, sentiment |-> ""]
NoRegional == [status |-> "none", rows |-> <<>>]
NoRemembered == [op |-> "none"]
NoAlertCall == [call |-> "none"]
NoRefreshCall == [call |-> "none"]

\* The session before any alert, check or refresh: st.session_state has none
\* of the keys, the job_postings table is as it was found.
InitSession ==
    /\ remembered = NoRemembered
    /\ saved_job_alerts = <<>>
    /\ alert_check_history = <<>>
    /\ alert_out = NoAlertCall
    /\ checks = <<>>
    /\ last_data_refresh = Never
    /\ clock = 0
    /\ database = 0
    /\ refresh_out = NoRefreshCall

NoForecast ==
    [status |-> "none", job_type |-> None, periods |-> 0,
     endog |-> <<>>, historical |-> <<>>, forecast_dates |-> <<>>,
     forecast |-> <<>>, upper_bound |-> <<>>, lower_bound |-> <<>>]

Init ==
    /\ df = <<>>
    /\ op = "idle"
    /\ ts_out = <<>>
    /\ growth_rates = <<>>
    /\ growth_periods = 0
    /\ fc = NoForecast
    /\ hi = NoHealth
    /\ insights = NoInsights
    /\ annotation = NoAnnotation
    /\ regional = NoRegional
    /\ InitSession

\* A posting is added to the dataset (upload, manual entry or import).
AddPosting ==
    /\ op = "idle"
    /\ Len(df) < MaxRows
    /\ \E k \in Months, jt \in JobTypes :
          df' = Append(df, [month_year |-> k, job_type |-> jt])
    /\ UNCHANGED <<op, ts_out, growth_rates, growth_periods, fc, health_out, session_out>>

PrepareTimeSeries ==
    /\ op = "idle"
    /\ op' = "prepare_time_series_data"
    /\ ts_out' = prepare_time_series_data(df)
    /\ UNCHANGED <<df, growth_rates, growth_periods, fc, health_out, session_out>>

PredictJobTypeGrowth ==
    /\ op = "idle"
    /\ \E periods \in 1 .. MaxPeriods :
          /\ growth_rates' = predict_job_type_growth(df, periods)
          /\ growth_periods' = periods
    /\ op' = "predict_job_type_growth"
    /\ UNCHANGED <<df, ts_out, fc, health_out, session_out>>

\* The caller drops the result.
Return ==
    /\ op # "idle"
    /\ op' = "idle"
    /\ ts_out' = <<>>
    /\ growth_rates' = <<>>
    /\ growth_periods' = 0
    /\ fc' = NoForecast
    /\ hi' = NoHealth
    /\ insights' = NoInsights
    /\ annotation' = NoAnnotation
    /\ regional' = NoRegional
    /\ UNCHANGED <<df, session_out>>

\* The Predictive Analytics tab draws the forecast for the chosen job type.
PlotJobForecast ==
    /\ op = "idle"
    /\ \E periods \in 1 .. MaxPeriods, job_type \in JobTypes \cup {None} :
          LET ts_data == GroupSize(IF job_type # None THEN FilterType(df, job_type) ELSE df)
          IN  \E fit \in (IF ModelRaises(ts_data) THEN {NoFit} ELSE Fits(ts_data)) :
                 fc' = plot_job_forecast(df, periods, job_type, fit)
    /\ op' = "plot_job_forecast"
    /\ UNCHANGED <<df, ts_out, growth_rates, growth_periods, health_out, session_out>>

Next == AddPosting \/ PrepareTimeSeries \/ PredictJobTypeGrowth \/ Return

Spec == Init /\ [][Next]_vars

\* A dataset loaded from the database, rows in date order: counts[n][jt]
\* postings of job type jt in the n-th of NumMonthsF consecutive months that
\* start at month first.
RECURSIVE Repeat(_, _)
Repeat(row, k) == IF k = 0 THEN <<>> ELSE <<row>> \o Repeat(row, k - 1)

RECURSIVE MonthRows(_, _, _)
MonthRows(k, counts, t) ==
    IF t = 0 THEN <<>>
    ELSE MonthRows(k, counts, t - 1) \o
         Repeat([month_year |-> k, job_type |-> SortedTypes[t]], counts[SortedTypes[t]])

RECURSIVE LoadedFrame(_, _, _)
LoadedFrame(first, counts, n) ==
    IF n = 0 THEN <<>>
    ELSE LoadedFrame(first, counts, n - 1) \o
         MonthRows(first + (n - 1), counts[n], Len(SortedTypes))

\* Sparse datasets: at most one posting per job type and month.
SparseCounts == [1 .. NumMonthsF -> [JobTypes -> 0 .. 1]]

\* Trending datasets: each job type starts at some count and rises, stays or
\* falls by one posting a month, never below 0.
TrendCounts ==
    { [n \in 1 .. NumMonthsF |->
          [jt \in JobTypes |->
              IF start[jt] + step[jt] * (n - 1) < 0 THEN 0
              ELSE start[jt] + step[jt] * (n - 1)]] :
        start \in [JobTypes -> 0 .. MaxStart], step \in [JobTypes -> {-1, 0, 1}] }

InitLoaded ==
    /\ \E first \in FirstMonths, counts \in SparseCounts \cup TrendCounts :
          df = LoadedFrame(first, counts, NumMonthsF)
    /\ op = "idle"
    /\ ts_out = <<>>
    /\ growth_rates = <<>>
    /\ growth_periods = 0
    /\ fc = NoForecast
    /\ hi = NoHealth
    /\ insights = NoInsights
    /\ annotation = NoAnnotation
    /\ regional = NoRegional
    /\ InitSession

NextForecast == PlotJobForecast \/ Return

SpecForecast == InitLoaded /\ [][NextForecast]_vars

\* The postings of one month: none, or one of these mixes of the three.
MonthMixes ==
    { {}, {OnSite}, {RemoteML}, {RemoteML, RemoteUS}, {OnSite, RemoteUS},
      {OnSite, RemoteML, RemoteUS} }

\* A dataset, rows in date order: in the n-th of NumMonthsH consecutive months
\* the postings picked[n] of the catalogue.
RECURSIVE HealthFrame(_, _)
HealthFrame(picked, n) ==
    IF n = 0 THEN <<>>
    ELSE HealthFrame(picked, n - 1) \o
         [i \in 1 .. Cardinality(picked[n]) |->
             [month_year |-> Ym(2023, 11) + (n - 1),
              job_type |-> SeqOfSet(picked[n])[i].job_type,
              company |-> SeqOfSet(picked[n])[i].company,
              location |-> SeqOfSet(picked[n])[i].location]]

\* The weights arguments tried: none, an override that omits factors, and an
\* override that names a factor monthly_stats_df has no column for.
WeightOverrides ==
    { [f \in {"job_count", "company_diversity"} |-> 5],
      [f \in {"job_count", "salary_level"} |-> 5] }

InitHealth ==
    /\ \E picked \in [1 .. NumMonthsH -> MonthMixes] :
          df = HealthFrame(picked, NumMonthsH)
    /\ op = "idle"
    /\ ts_out = <<>>
    /\ growth_rates = <<>>
    /\ growth_periods = 0
    /\ fc = NoForecast
    /\ hi = NoHealth
    /\ insights = NoInsights
    /\ annotation = NoAnnotation
    /\ regional = NoRegional
    /\ InitSession

CalculateHealthIndex ==
    /\ op = "idle"
    /\ \E window \in 1 .. MaxWindow :
          \/ LET r == calculate_job_market_health_index(df, window, default_weights)
             IN  hi' = [status |-> "done", window |-> window, override |-> FALSE,
                        applied |-> r.applied, rows |-> r.rows]
          \/ \E weights \in WeightOverrides :
                LET r == calculate_job_market_health_index(df, window, weights)
                IN  hi' = [status |-> "done", window |-> window, override |-> TRUE,
                           applied |-> r.applied, rows |-> r.rows]
    /\ op' = "calculate_job_market_health_index"
    /\ UNCHANGED <<df, predictor_out, insights, annotation, regional, session_out>>

GetMarketHealthInsights ==
    /\ op = "idle"
    /\ \E window \in 1 .. MaxWindow : insights' = get_market_health_insights(df, window)
    /\ op' = "get_market_health_insights"
    /\ UNCHANGED <<df, predictor_out, hi, annotation, regional, session_out>>

PlotHealthIndex ==
    /\ op = "idle"
    /\ \E window \in 1 .. MaxWindow : annotation' = plot_job_market_health_index(df, window)
    /\ op' = "plot_job_market_health_index"
    /\ UNCHANGED <<df, predictor_out, hi, insights, regional, session_out>>

NextHealth == CalculateHealthIndex \/ GetMarketHealthInsights \/ PlotHealthIndex \/ Return

SpecHealth == InitHealth /\ [][NextHealth]_vars

\* Mutant of CalculateRegionalHealthIndices: the 'region' column is added to
\* the caller's DataFrame.
CalculateRegionalInPlace ==
    /\ op = "idle"
    /\ regional' = [status |-> "done", rows |-> calculate_regional_health_indices(df)]
    /\ df' = with_region(df)
    /\ op' = "calculate_regional_health_indices"
    /\ UNCHANGED <<predictor_out, hi, insights, annotation, session_out>>

CalculateRegionalHealthIndices ==
    /\ op = "idle"
    /\ regional' = [status |-> "done", rows |-> calculate_regional_health_indices(df)]
    /\ op' = "calculate_regional_health_indices"
    /\ UNCHANGED <<df, predictor_out, hi, insights, annotation, session_out>>

\* The Market Health tab and the growth table on one loaded dataset.
NextRegional ==
    \/ CalculateHealthIndex
    \/ GetMarketHealthInsights
    \/ CalculateRegionalHealthIndices
    \/ PredictJobTypeGrowth
    \/ Return

SpecRegional == InitHealth /\ [][NextRegional]_vars

\* The Predictive Analytics tab: behind the gate of three distinct months the
\* forecast of the selected job type, or of all jobs, is drawn.
ForecastTab ==
    /\ op = "idle"
    /\ Cardinality(MonthsOf(df)) >= 3
    /\ \E forecast_periods \in 1 .. MaxPeriods :
          \E forecast_job_type \in {None} \cup { df[i].job_type : i \in 1 .. Len(df) } :
             LET ts_data == GroupSize(IF forecast_job_type # None
                                      THEN FilterType(df, forecast_job_type) ELSE df)
             IN  \E fit \in (IF ModelRaises(ts_data) THEN {NoFit} ELSE Fits(ts_data)) :
                    fc' = plot_job_forecast(df, forecast_periods, forecast_job_type, fit)
    /\ op' = "forecast_tab"
    /\ UNCHANGED <<df, ts_out, growth_rates, growth_periods, health_out, session_out>>

NextTab == AddPosting \/ ForecastTab \/ Return

SpecTab == Init /\ [][NextTab]_vars

(* The alert handlers *)

MaxPostings == 2

AlertNames == {"mine", "other"}

InitAlerts ==
    /\ df = <<>>
    /\ op = "idle"
    /\ ts_out = <<>>
    /\ growth_rates = <<>>
    /\ growth_periods = 0
    /\ fc = NoForecast
    /\ hi = NoHealth
    /\ insights = NoInsights
    /\ annotation = NoAnnotation
    /\ regional = NoRegional
    /\ InitSession

\* The data source brings one more posting.
NewPosting ==
    /\ Len(df) < MaxPostings
    /\ \E row \in DatedPostings : df' = Append(df, row)
    /\ UNCHANGED <<op, predictor_out, health_out, session_out>>

\* save_user_alert(preferences, name)
SaveUserAlert ==
    /\ \E name \in AlertNames, preferences \in AlertPreferences :
          /\ saved_job_alerts' = Put(saved_job_alerts, name,
                                     [job_types |-> preferences.job_types,
                                      companies |-> preferences.companies,
                                      locations |-> preferences.locations,
                                      remote_only |-> preferences.remote_only,
                                      recent_days |-> preferences.recent_days,
                                      skills |-> preferences.skills,
                                      created_at |-> At(clock)])
          /\ alert_out' = [call |-> "save_user_alert", alert_name |-> name, result |-> TRUE]
    /\ UNCHANGED <<df, op, predictor_out, health_out, remembered, alert_check_history,
                   checks, live_data_out>>

\* delete_user_alert(name)
DeleteUserAlert ==
    /\ \E name \in AlertNames :
          /\ saved_job_alerts' = IF name \in DOMAIN saved_job_alerts
                                 THEN Del(saved_job_alerts, name) ELSE saved_job_alerts
          /\ alert_check_history' = delete_user_alert_history(alert_check_history, name)
          /\ alert_out' = [call |-> "delete_user_alert", alert_name |-> name,
                           result |-> (name \in DOMAIN saved_job_alerts)]
    /\ UNCHANGED <<df, op, predictor_out, health_out, remembered, checks, live_data_out>>

\* check_alert_for_new_matches(alert_name, preferences, df); checks keeps, for
\* every name, the data, the preferences and the matches of its latest check.
CheckAlertForNewMatches ==
    /\ \E alert_name \in AlertNames, preferences \in AlertPreferences :
          LET out == check_alert_for_new_matches(alert_check_history, clock, alert_name,
                                                 preferences, df)
          IN  /\ alert_check_history' = Put(alert_check_history, alert_name, out.alert_history)
              /\ alert_out' = [call |-> "check_alert_for_new_matches",
                               alert_name |-> alert_name,
                               new_matches |-> out.new_matches,
                               is_first_check |-> out.is_first_check]
              /\ checks' = Put(checks, alert_name,
                               [df |-> df, preferences |-> preferences,
                                matches |-> out.alert_history.last_matches])
    /\ UNCHANGED <<df, op, predictor_out, health_out, remembered, saved_job_alerts,
                   live_data_out>>

NextAlerts == NewPosting \/ SaveUserAlert \/ DeleteUserAlert \/ CheckAlertForNewMatches

SpecAlerts == InitAlerts /\ [][NextAlerts]_vars

\* A step of the alert handlers is told by the call alert_out holds after it;
\* a new posting leaves alert_out and changes df.
CheckStep == alert_out'.call = "check_alert_for_new_matches" /\ df' = df
SaveStep == alert_out'.call = "save_user_alert" /\ df' = df
DeleteStep == alert_out'.call = "delete_user_alert" /\ df' = df

(* schedule_data_refresh (live_data.py).  The clock counts half hours; the  *)
(* job_postings table is the number of its rows.                           *)

MaxClock == 4
MaxInterval == 2
MaxJobs == 2
MaxStored == 3

\* What the fetch of a source hands back: None (<<>>), or a frame of n rows
\* (<<n>>).
NoFrame == <<>>
Frame(n) == <<n>>
Fetched == {NoFrame} \cup { Frame(n) : n \in 0 .. MaxJobs }

InitRefresh == InitAlerts

\* Half an hour passes.
Tick ==
    /\ clock < MaxClock
    /\ clock' = clock + 1
    /\ UNCHANGED <<df, op, predictor_out, health_out, remembered, alerts_out,
                   last_data_refresh, database, refresh_out>>

\* schedule_data_refresh(refresh_interval, api_key, url): source tells which
\* of api_key and url is given, retrieved what the fetch returns and
\* success_count how many rows add_multiple_job_postings commits.
ScheduleDataRefresh ==
    /\ \E refresh_interval \in 1 .. MaxInterval, source \in {"api_key", "url", None} :
          LET last_refresh == last_data_refresh
              now == clock
          IN  IF last_refresh = Never \/ now - last_refresh[1] >= 2 * refresh_interval
              THEN IF source = None
                   THEN /\ refresh_out' = [call |-> "schedule_data_refresh",
                                           message |-> "No API key or URL provided",
                                           fetched |-> FALSE, retrieved |-> NoFrame]
                        /\ UNCHANGED <<last_data_refresh, database>>
                   ELSE \E retrieved \in Fetched :
                           IF retrieved # NoFrame /\ retrieved # Frame(0)
                           THEN \E success_count \in 0 .. retrieved[1] :
                                   /\ database + success_count <= MaxStored
                                   /\ database' = database + success_count
                                   /\ last_data_refresh' = At(now)
                                   /\ refresh_out' = [call |-> "schedule_data_refresh",
                                                      message |-> "Data refreshed successfully",
                                                      fetched |-> TRUE, retrieved |-> retrieved]
                           ELSE /\ refresh_out' = [call |-> "schedule_data_refresh",
                                                   message |-> "Failed to refresh data",
                                                   fetched |-> TRUE, retrieved |-> retrieved]
                                /\ UNCHANGED <<last_data_refresh, database>>
              ELSE /\ refresh_out' = [call |-> "schedule_data_refresh",
                                      message |-> "Next data refresh scheduled",
                                      fetched |-> FALSE, retrieved |-> NoFrame]
                   /\ UNCHANGED <<last_data_refresh, database>>
    /\ UNCHANGED <<df, op, predictor_out, health_out, remembered, alerts_out, clock>>

NextRefresh == Tick \/ ScheduleDataRefresh

SpecRefresh == InitRefresh /\ [][NextRefresh]_vars

\* The arguments of the call whose result is held.
Args == <<growth_periods, hi.window, hi.override, hi.applied, insights.window>>

\* The caller keeps the result of a call, with its arguments, and goes on.
KeepResult ==
    /\ op \in {"predict_job_type_growth", "calculate_job_market_health_index",
               "get_market_health_insights"}
    /\ remembered = NoRemembered
    /\ remembered' = [op |-> op, args |-> Args, out |-> <<growth_rates, hi, insights>>]
    /\ op' = "idle"
    /\ growth_rates' = <<>>
    /\ growth_periods' = 0
    /\ hi' = NoHealth
    /\ insights' = NoInsights
    /\ UNCHANGED <<df, ts_out, fc, annotation, regional, alerts_out, live_data_out>>

\* The postings of one month of a dataset on which calls are repeated.
RepeatMixes == { {}, {OnSite}, {OnSite, RemoteML, RemoteUS} }

InitRepeat ==
    /\ \E picked \in [1 .. NumMonthsR -> RepeatMixes] : df = HealthFrame(picked, NumMonthsR)
    /\ op = "idle"
    /\ ts_out = <<>>
    /\ growth_rates = <<>>
    /\ growth_periods = 0
    /\ fc = NoForecast
    /\ hi = NoHealth
    /\ insights = NoInsights
    /\ annotation = NoAnnotation
    /\ regional = NoRegional
    /\ InitSession

\* Calls in any order on one posting set, one result being kept.
NextRepeat ==
    \/ PredictJobTypeGrowth
    \/ CalculateHealthIndex
    \/ GetMarketHealthInsights
    \/ KeepResult
    \/ Return

SpecRepeat == InitRepeat /\ [][NextRepeat]_vars

----------------------------------------------------------------------------
(* Properties of the Smoothing Forecaster, checked under SpecForecast *)

Forecasted == op = "plot_job_forecast" /\ fc.status = "ok"

\* C1: for every forecast point i of plot_job_forecast,
\* lower_bound[i] <= forecast[i] <= upper_bound[i] and lower_bound[i] >= 0,
\* also when the point forecast is negative.
C1_BandOrdering ==
    Forecasted =>
        \A i \in 1 .. Len(fc.forecast) :
            /\ fc.lower_bound[i] <= fc.forecast[i]
            /\ fc.forecast[i] <= fc.upper_bound[i]
            /\ fc.lower_bound[i] >= 0

\* C2: forecast_job_trends returns exactly `periods` forecast months, the
\* consecutive calendar months that follow the last historical month.
C2_ForecastMonths ==
    Forecasted =>
        /\ Len(fc.forecast_dates) = fc.periods
        /\ \A i \in 1 .. Len(fc.forecast_dates) :
              fc.forecast_dates[i] = fc.historical[Len(fc.historical)].month + i

\* C3: the forecaster never ends in an error; a series the model cannot be
\* fitted to (a single month, fewer points than the seasonal period needs)
\* gives a flat forecast at the last observed value with a zero-width band.
C3_FlatFallback ==
    (op = "plot_job_forecast" /\ fc.endog # <<>>) =>
        /\ fc.status = "ok"
        /\ ModelRaises(fc.endog) =>
              \A i \in 1 .. Len(fc.forecast) :
                  /\ fc.forecast[i] = 100 * fc.endog[Len(fc.endog)].count
                  /\ fc.lower_bound[i] = fc.forecast[i]
                  /\ fc.upper_bound[i] = fc.forecast[i]

\* C4: the series handed to the smoothing model has one entry for every
\* calendar month between its first and last month (0 for a month without a
\* posting): consecutive entries are exactly one calendar month apart.
C4_EndogContiguous ==
    op = "plot_job_forecast" =>
        \A i \in 1 .. Len(fc.endog) - 1 :
            fc.endog[i + 1].month = fc.endog[i].month + 1

----------------------------------------------------------------------------
(* Properties of the Time Series Builder and the Linear Growth Predictor,  *)
(* checked under Spec                                                      *)

\* C5: prepare_time_series_data of a non-empty posting set is ascending with
\* one entry per calendar month from the earliest to the latest observed
\* month; each entry is the number of postings of that month (0 when there
\* is none), so the entries sum to the number of postings.
C5_MonthlyCompleteness ==
    (op = "prepare_time_series_data" /\ df # <<>>) =>
        /\ Len(ts_out) = Max(MonthsOf(df)) - Min(MonthsOf(df)) + 1
        /\ \A i \in 1 .. Len(ts_out) :
              /\ ts_out[i].month = Min(MonthsOf(df)) + (i - 1)
              /\ ts_out[i].count = CountIn(df, ts_out[i].month)
        /\ SumSeq([i \in 1 .. Len(ts_out) |-> ts_out[i].count]) = Len(df)

\* A series with a zero-filled month between two months that have postings.
C5_Witness ==
    /\ op = "prepare_time_series_data"
    /\ Len(ts_out) = 3
    /\ ts_out[2].count = 0
    /\ ts_out[3].count = 2

GrowthDone == op = "predict_job_type_growth"

TypesOf(frame) == { frame[i].job_type : i \in 1 .. Len(frame) }

IsPlaceholder(row) == row.Current = 0 /\ row.Predicted = 0 /\ row.Growth = 0

\* C6: predict_job_type_growth returns exactly one row per distinct job type
\* of the input; a job type with fewer than 2 monthly data points has the
\* placeholder row (0, 0, 0).
C6_OneRowPerJobType ==
    GrowthDone =>
        /\ Len(growth_rates) = Cardinality(TypesOf(df))
        /\ { growth_rates[i].job_type : i \in 1 .. Len(growth_rates) } = TypesOf(df)
        /\ \A i \in 1 .. Len(growth_rates) :
              Len(monthly_counts(df, growth_rates[i].job_type)) < 2
                  => IsPlaceholder(growth_rates[i])

\* One job type with a single month (placeholder), one with a fitted row.
C6_Witness ==
    /\ GrowthDone
    /\ Len(growth_rates) = 2
    /\ \E i, j \in 1 .. 2 :
          /\ Len(monthly_counts(df, growth_rates[i].job_type)) = 1
          /\ IsPlaceholder(growth_rates[i])
          /\ Len(monthly_counts(df, growth_rates[j].job_type)) >= 2
          /\ growth_rates[j].Current > 0

\* C7 as stated: on the reported fields (tenths), growth = (predicted -
\* current) / current * 100 when current > 0, 0 when both are 0, and 100 when
\* current = 0 and predicted > 0.
C7_GrowthOnReportedFields ==
    GrowthDone =>
        \A i \in 1 .. Len(growth_rates) :
            LET row == growth_rates[i]
            IN  /\ row.Current > 0 =>
                      row.Growth * row.Current = 1000 * (row.Predicted - row.Current)
                /\ (row.Current = 0 /\ row.Predicted = 0) => row.Growth = 0
                /\ (row.Current = 0 /\ row.Predicted > 0) => row.Growth = 1000

\* |tenths - 10 * num / den| <= 1/2
WithinHalfTenth(tenths, num, den) == 2 * Abs(tenths * den - 10 * num) <= den

\* C7 as amended: a job type with at least 2 monthly data points has an
\* unrounded baseline C > 0 and unrounded predicted mean P; its row reports C,
\* P and (P - C) / C * 100, each rounded to one decimal on its own.  A job
\* type with fewer data points has the row (0, 0, 0).  No row has current = 0
\* with predicted > 0.
C7_GrowthUpToRounding ==
    GrowthDone =>
        \A i \in 1 .. Len(growth_rates) :
            LET row == growth_rates[i]
                mc == monthly_counts(df, row.job_type)
                C == current_count(mc)
                P == predicted_count(mc, growth_periods)
            IN  /\ Len(mc) >= 2 =>
                      /\ C[1] > 0
                      /\ WithinHalfTenth(row.Current, C[1], C[2])
                      /\ WithinHalfTenth(row.Predicted, P[1], P[2])
                      /\ WithinHalfTenth(row.Growth,
                                         100 * (P[1] * C[2] - C[1] * P[2]),
                                         P[2] * C[1])
                /\ Len(mc) < 2 => IsPlaceholder(row)
                /\ ~(row.Current = 0 /\ row.Predicted > 0)

\* A fitted row whose reported fields do not satisfy the identity exactly.
C7_Witness ==
    /\ GrowthDone
    /\ \E i \in 1 .. Len(growth_rates) :
          /\ growth_rates[i].Current > 0
          /\ growth_rates[i].Growth # 0
          /\ growth_rates[i].Growth * growth_rates[i].Current
                # 1000 * (growth_rates[i].Predicted - growth_rates[i].Current)

\* C8: a job type whose postings all fall in the most recent month of the
\* dataset (none in any earlier month) has growth 100.0.
C8_NewCategoryGrowth100 ==
    GrowthDone =>
        \A i \in 1 .. Len(growth_rates) :
            (/\ MonthsOf(FilterType(df, growth_rates[i].job_type)) = {Max(MonthsOf(df))}
             /\ Min(MonthsOf(df)) < Max(MonthsOf(df)))
                => growth_rates[i].Growth = 1000

\* C9 as stated: every row's growth is strictly greater than the next row's.
C9_StrictlyDescending ==
    GrowthDone =>
        \A i \in 1 .. Len(growth_rates) - 1 :
            growth_rates[i].Growth > growth_rates[i + 1].Growth

\* C9 as amended: the rows are sorted descending by growth, rows of equal
\* growth being adjacent, so the row at index 0 has the maximum growth.
C9_Descending ==
    GrowthDone =>
        /\ \A i \in 1 .. Len(growth_rates) - 1 :
              growth_rates[i].Growth >= growth_rates[i + 1].Growth
        /\ \A i \in 1 .. Len(growth_rates) :
              growth_rates[1].Growth >= growth_rates[i].Growth

\* The sort moved the job type that appears second in the data to the front.
C9_Witness ==
    /\ GrowthDone
    /\ Len(growth_rates) = 2
    /\ growth_rates[1].Growth > growth_rates[2].Growth
    /\ growth_rates[1].job_type = unique(df)[2]

IsConstant(mc) == \A i \in 1 .. Len(mc) : mc[i].count = mc[1].count

\* C10: a job type with the same count c > 0 in each of its n >= 2 months has
\* current = c, predicted = c and growth 0, whatever periods is.
C10_FlatGrowth ==
    GrowthDone =>
        \A i \in 1 .. Len(growth_rates) :
            LET mc == monthly_counts(df, growth_rates[i].job_type)
            IN  (Len(mc) >= 2 /\ IsConstant(mc)) =>
                    /\ growth_rates[i].Current = 10 * mc[1].count
                    /\ growth_rates[i].Predicted = 10 * mc[1].count
                    /\ growth_rates[i].Growth = 0

\* Two postings in each of two months, predicted over two periods.
C10_Witness ==
    /\ GrowthDone
    /\ growth_periods = 2
    /\ \E i \in 1 .. Len(growth_rates) :
          LET mc == monthly_counts(df, growth_rates[i].job_type)
          IN  Len(mc) = 2 /\ IsConstant(mc) /\ mc[1].count = 2
              /\ growth_rates[i].Current = 20

----------------------------------------------------------------------------
(* Properties of the Composite Health Index Calculator, checked under      *)
(* SpecHealth                                                              *)

HealthDone == op = "calculate_job_market_health_index"

InsightsDone == op = "get_market_health_insights" /\ insights.has_data

\* The indices of the postings of month k.
PostingsOf(k) == { j \in 1 .. Len(df) : df[j].month_year = k }

\* The locations of the postings with 'remote' in them, in whatever case.
RemoteLocations == {RemoteML.location, RemoteUS.location}

InUnit(x, lo, up) == IsNum(x) /\ RGe(x, <<lo, 1>>) /\ RLe(x, <<up, 1>>)

\* C19: every month's raw remote_ratio is the number of the month's postings
\* whose location contains 'remote' in any case over the number of the
\* month's postings; it lies in [0, 1] and is exactly 1 when every posting of
\* the month contains 'remote'.
C19_RemoteRatio ==
    HealthDone =>
        \A i \in 1 .. Len(hi.rows) :
            LET month == PostingsOf(hi.rows[i].month_year)
                rem == { j \in month : df[j].location \in RemoteLocations }
                ratio == hi.rows[i].raw["remote_ratio"]
            IN  /\ ratio[2] > 0
                /\ ratio[1] * Cardinality(month) = Cardinality(rem) * ratio[2]
                /\ InUnit(ratio, 0, 1)
                /\ rem = month => ratio = <<1, 1>>

\* A month whose two postings are 'Remote' and 'US REMOTE' has ratio 1, and
\* a month with one of two postings remote has ratio 1/2.
C19_Witness ==
    /\ HealthDone
    /\ \E i, k \in 1 .. Len(hi.rows) :
          /\ hi.rows[i].raw["remote_ratio"] = <<1, 1>>
          /\ hi.rows[i].raw["job_count"] = <<2, 1>>
          /\ hi.rows[k].raw["remote_ratio"] = <<1, 2>>

\* C20: the result has exactly one row per distinct month_year of the
\* postings, none for a month without postings, in ascending order of the
\* month; each row's job_count is the number of postings of its month.
C20_OneRowPerMonth ==
    HealthDone =>
        /\ { hi.rows[i].month_year : i \in 1 .. Len(hi.rows) }
              = { df[j].month_year : j \in 1 .. Len(df) }
        /\ \A i \in 1 .. Len(hi.rows) - 1 :
              hi.rows[i].month_year < hi.rows[i + 1].month_year
        /\ \A i \in 1 .. Len(hi.rows) :
              hi.rows[i].raw["job_count"]
                 = <<Cardinality(PostingsOf(hi.rows[i].month_year)), 1>>

\* Postings in two months with an empty month between them: two rows.
C20_Witness ==
    /\ HealthDone
    /\ Len(hi.rows) = 2
    /\ hi.rows[2].month_year = hi.rows[1].month_year + 2
    /\ hi.rows[2].raw["job_count"] = <<2, 1>>

\* Month i has the least (greatest) raw value of factor f.
IsMinOf(f, i) == \A j \in 1 .. Len(hi.rows) : RLe(hi.rows[i].raw[f], hi.rows[j].raw[f])
IsMaxOf(f, i) == \A j \in 1 .. Len(hi.rows) : RGe(hi.rows[i].raw[f], hi.rows[j].raw[f])

\* C14: with fewer than 3 months every normalized value lies in [-1, 1]; when
\* a factor's minimum and maximum differ its minimum month gets -1 and its
\* maximum month +1; when they are equal every normalized value is 0.
C14_MinMaxScaling ==
    (HealthDone /\ Len(hi.rows) < 3) =>
        \A f \in DOMAIN hi.applied :
            \A i \in 1 .. Len(hi.rows) :
                /\ InUnit(hi.rows[i].norm[f], -1, 1)
                /\ IF \E j \in 1 .. Len(hi.rows) : hi.rows[j].raw[f] # hi.rows[i].raw[f]
                   THEN /\ IsMinOf(f, i) => hi.rows[i].norm[f] = <<-1, 1>>
                        /\ IsMaxOf(f, i) => hi.rows[i].norm[f] = <<1, 1>>
                   ELSE hi.rows[i].norm[f] = <<0, 1>>

\* Two months: job_count differs (-1 and +1), job_type_diversity does not (0).
C14_Witness ==
    /\ HealthDone
    /\ Len(hi.rows) = 2
    /\ hi.rows[1].norm["job_count"] = <<1, 1>>
    /\ hi.rows[2].norm["job_count"] = <<-1, 1>>
    /\ hi.rows[1].norm["job_type_diversity"] = <<0, 1>>

\* The months whose composite (health_index) is a defined number.
DefinedComposite == { i \in 1 .. Len(hi.rows) : IsNum(hi.rows[i].health_index) }

\* C26: when at least two months have different defined composites, the month
\* with the lowest composite gets health_index_scaled 0, the month with the
\* highest gets 100 and the order of the composites is preserved; when no two
\* months differ (a single month included) every health_index_scaled is 50.
C26_Rescaling ==
    HealthDone =>
        LET D == DefinedComposite
            h(i) == hi.rows[i].health_index
            sc(i) == hi.rows[i].health_index_scaled
        IN  IF \E i, j \in D : h(i) # h(j)
            THEN \A i \in D :
                    /\ (\A j \in D : RLe(h(i), h(j))) => sc(i) = <<0, 1>>
                    /\ (\A j \in D : RGe(h(i), h(j))) => sc(i) = <<100, 1>>
                    /\ \A j \in D : /\ RLt(h(i), h(j)) => RLt(sc(i), sc(j))
                                    /\ h(i) = h(j) => sc(i) = sc(j)
            ELSE \A i \in 1 .. Len(hi.rows) : sc(i) = <<50, 1>>

\* Three months with three different composites: 0, 100 and a score between.
C26_Witness ==
    /\ HealthDone
    /\ Len(hi.rows) = 3
    /\ \E i, j, k \in DefinedComposite :
          /\ hi.rows[i].health_index_scaled = <<0, 1>>
          /\ hi.rows[j].health_index_scaled = <<100, 1>>
          /\ RGt(hi.rows[k].health_index_scaled, <<0, 1>>)
          /\ RLt(hi.rows[k].health_index_scaled, <<100, 1>>)

\* C11: for a non-empty posting set every month's health_index_scaled and
\* every month's health_index_ma is a defined number in [0, 100].
C11_ScoresInRange ==
    (HealthDone /\ df # <<>>) =>
        \A i \in 1 .. Len(hi.rows) :
            /\ InUnit(hi.rows[i].health_index_scaled, 0, 100)
            /\ InUnit(hi.rows[i].health_index_ma, 0, 100)

\* The mean of the rescaled scores of the `window` months ending at month i.
TrailingMean(i, window) ==
    RDiv(RSum([j \in 1 .. window |-> hi.rows[i - window + j].health_index_scaled]),
         <<window, 1>>)

\* C12: a month before the window is full has its rescaled score as smoothed
\* score, a later month the mean of the last `window` rescaled scores; no
\* smoothed score is NaN.
C12_SmoothedSeries ==
    HealthDone =>
        \A i \in 1 .. Len(hi.rows) :
            /\ IsNum(hi.rows[i].health_index_ma)
            /\ hi.rows[i].health_index_ma =
                  IF i < hi.window THEN hi.rows[i].health_index_scaled
                  ELSE TrailingMean(i, hi.window)

\* C13: for a month after the first whose smoothed score and whose
\* predecessor's smoothed score are defined, mom_change is the difference of
\* the two smoothed scores.
C13_DeltaOnSmoothed ==
    HealthDone =>
        \A i \in 2 .. Len(hi.rows) :
            (IsNum(hi.rows[i].health_index_ma) /\ IsNum(hi.rows[i - 1].health_index_ma))
                => hi.rows[i].mom_change
                      = RSub(hi.rows[i].health_index_ma, hi.rows[i - 1].health_index_ma)

\* C15: with 3 or more months every normalized value is a defined number in
\* [-3, 3] and every month's composite is defined, also when a factor has the
\* same value in every month.
C15_ZScoreDefined ==
    (HealthDone /\ Len(hi.rows) >= 3) =>
        \A i \in 1 .. Len(hi.rows) :
            /\ \A f \in DOMAIN hi.applied : InUnit(hi.rows[i].norm[f], -3, 3)
            /\ IsNum(hi.rows[i].health_index)

\* The sum of the weights of a weights dictionary, in tenths.
WeightSum(weights) ==
    SumSeq([j \in 1 .. Cardinality(DOMAIN weights) |-> weights[SeqOfSet(DOMAIN weights)[j]]])

\* C16: the weights applied in the composite sum to 1.0, with the defaults
\* and with an override.
C16_WeightsSumToOne ==
    (HealthDone /\ hi.rows # <<>>) => WeightSum(hi.applied) = 10

\* The label the thresholds 30, 45, 55 and 70 give a score.
Bucket(s) ==
    CASE RLt(s, <<30, 1>>) -> "Very Weak"
      [] RGe(s, <<30, 1>>) /\ RLt(s, <<45, 1>>) -> "Weak"
      [] RGe(s, <<45, 1>>) /\ RLt(s, <<55, 1>>) -> "Stable"
      [] RGe(s, <<55, 1>>) /\ RLt(s, <<70, 1>>) -> "Strong"
      [] RGe(s, <<70, 1>>) -> "Very Strong"
      [] OTHER -> "undefined"

\* C17: the latest smoothed score is a number and the sentiment is its
\* bucket, in get_market_health_insights and in the annotation of
\* plot_job_market_health_index, which label the same data alike.
C17_SentimentBuckets ==
    /\ InsightsDone =>
          /\ IsNum(insights.current_index)
          /\ insights.sentiment = Bucket(insights.current_index)
          /\ insights.sentiment
                = plot_job_market_health_index(df, insights.window).sentiment
    /\ (op = "plot_job_market_health_index" /\ annotation.has_data) =>
          /\ IsNum(annotation.latest_index)
          /\ annotation.sentiment = Bucket(annotation.latest_index)

\* A latest score smoothed over two months that falls in the Strong bucket.
C17_Witness ==
    /\ InsightsDone
    /\ insights.window = 2
    /\ insights.sentiment = "Strong"
    /\ insights.current_index
          # insights.rows[Len(insights.rows)].health_index_scaled

\* The months of the insights' series with a defined smoothed score.
DefinedSmoothed == { i \in 1 .. Len(insights.rows) : IsNum(insights.rows[i].health_index_ma) }

\* C18: the trend is 'Insufficient Data' when fewer than 3 months have a
\* defined smoothed score, and Improving, Declining or Stable only when the
\* two smoothed scores compared are defined.
C18_TrendNeedsThreePoints ==
    InsightsDone =>
        /\ Cardinality(DefinedSmoothed) < 3 => insights.trend = "Insufficient Data"
        /\ insights.trend \in {"Improving", "Declining", "Stable"} =>
              /\ Len(insights.rows) >= 3
              /\ IsNum(insights.rows[Len(insights.rows)].health_index_ma)
              /\ IsNum(insights.rows[Len(insights.rows) - 2].health_index_ma)

----------------------------------------------------------------------------
(* Properties of the regional indices and of the components as a whole,    *)
(* checked under SpecRegional                                              *)

RegionalDone == op = "calculate_regional_health_indices"

\* The region of a posting of the datasets: 'Remote' and 'US REMOTE' are
\* Remote, 'NY' is US East.
RegionOf(row) == IF row.location \in RemoteLocations THEN "Remote" ELSE "US East"

\* The postings of df that lie in a region.
PostingsIn(region) == SelectSeq(df, LAMBDA r : RegionOf(r) = region)

\* C21: calculate_regional_health_indices has one row per region with a
\* posting; the row holds the latest rescaled index and raw signals of the
\* health index of that region's postings alone; the rows are in descending
\* order of the index.
C21_RegionalIndices ==
    RegionalDone =>
        /\ { regional.rows[i].region : i \in 1 .. Len(regional.rows) }
              = { RegionOf(df[j]) : j \in 1 .. Len(df) }
        /\ Len(regional.rows) = Cardinality({ RegionOf(df[j]) : j \in 1 .. Len(df) })
        /\ \A i \in 1 .. Len(regional.rows) :
              LET own == calculate_job_market_health_index(
                             PostingsIn(regional.rows[i].region), 3, default_weights).rows
              IN  /\ regional.rows[i].health_index = own[Len(own)].health_index_scaled
                  /\ regional.rows[i].raw = own[Len(own)].raw
        /\ \A i \in 1 .. Len(regional.rows) - 1 :
              RGe(regional.rows[i].health_index, regional.rows[i + 1].health_index)

\* Two regions, and the sort put US East, the later group, first.
C21_Witness ==
    /\ RegionalDone
    /\ Len(regional.rows) = 2
    /\ regional.rows[1].region = "US East"
    /\ RGt(regional.rows[1].health_index, regional.rows[2].health_index)

\* C23: for an empty posting set calculate_job_market_health_index returns an
\* empty collection, get_market_health_insights returns has_data = False and
\* calculate_regional_health_indices returns an empty collection; none ends
\* in an error.
C23_EmptyInput ==
    df = <<>> =>
        /\ HealthDone => (hi.status = "done" /\ hi.rows = <<>>)
        /\ op = "get_market_health_insights" =>
              (insights.status = "done" /\ insights.has_data = FALSE)
        /\ RegionalDone => (regional.status = "done" /\ regional.rows = <<>>)

\* get_market_health_insights has returned for the empty posting set.
C23_Witness ==
    /\ df = <<>>
    /\ op = "get_market_health_insights"
    /\ insights.status = "done"
    /\ ~insights.has_data

\* C29: a step in which calculate_job_market_health_index,
\* calculate_regional_health_indices or predict_job_type_growth returns
\* leaves the caller's posting set as it was: same rows, columns and order.
C29_InputUnchanged ==
    [][op' \in {"calculate_job_market_health_index",
                "calculate_regional_health_indices",
                "predict_job_type_growth"} => df' = df]_vars

\* calculate_regional_health_indices has returned rows for a dataset of two
\* regions, whose rows have no 'region' column.
C29_Witness ==
    /\ RegionalDone
    /\ Len(regional.rows) = 2
    /\ \A i \in 1 .. Len(df) :
          DOMAIN df[i] = {"month_year", "job_type", "company", "location"}

----------------------------------------------------------------------------
(* Determinism, checked under SpecRepeat *)

----------------------------------------------------------------------------
(* The alert store and the alert checks, checked under SpecAlerts *)

\* C27: a check of an alert name that was never checked returns all current
\* matches with is_first_check true; a later check returns, with
\* is_first_check false, exactly the current matches that were not in the
\* match set of the immediately preceding check of that name, so none when the
\* data and the preferences are those of that check; a check of another name
\* changes neither the history nor the preceding check of this name.
C27_NewMatches ==
    [][CheckStep =>
         LET name == alert_out'.alert_name
             preferences == checks'[name].preferences
             current == IndexSet(create_job_alert(df,
                            [preferences EXCEPT !.recent_days = lookback_days]))
         IN  /\ IF name \in DOMAIN checks
                THEN /\ ~ alert_out'.is_first_check
                     /\ alert_out'.new_matches = current \ checks[name].matches
                     /\ (checks[name].df = df /\ checks[name].preferences = preferences)
                            => alert_out'.new_matches = {}
                ELSE /\ alert_out'.is_first_check
                     /\ alert_out'.new_matches = current
             /\ \A other \in AlertNames \ {name} :
                   /\ (other \in DOMAIN checks) = (other \in DOMAIN checks')
                   /\ other \in DOMAIN checks => checks'[other] = checks[other]
                   /\ (other \in DOMAIN alert_check_history)
                          = (other \in DOMAIN alert_check_history')
                   /\ other \in DOMAIN alert_check_history =>
                          alert_check_history'[other] = alert_check_history[other]]_vars

\* A later check whose current matches are partly new: some are returned, the
\* others were matches of the preceding check; the other name has a history.
C27_Witness ==
    /\ alert_out.call = "check_alert_for_new_matches"
    /\ ~ alert_out.is_first_check
    /\ alert_out.new_matches # {}
    /\ alert_out.new_matches # alert_check_history[alert_out.alert_name].last_matches
    /\ "other" \in DOMAIN alert_check_history

\* C30: the store holds one alert per name, the one saved last; delete returns
\* True exactly when the name was saved and the name is absent afterwards;
\* neither delete nor save changes alert_check_history, so a check of a name
\* checked before is not a first check, whatever was deleted and saved since.
C30_AlertStore ==
    [][/\ SaveStep =>
            /\ alert_out'.result
            /\ DOMAIN saved_job_alerts' = DOMAIN saved_job_alerts \cup {alert_out'.alert_name}
            /\ \E preferences \in AlertPreferences :
                   saved_job_alerts'[alert_out'.alert_name] =
                       [job_types |-> preferences.job_types,
                        companies |-> preferences.companies,
                        locations |-> preferences.locations,
                        remote_only |-> preferences.remote_only,
                        recent_days |-> preferences.recent_days,
                        skills |-> preferences.skills,
                        created_at |-> At(clock)]
            /\ \A n \in DOMAIN saved_job_alerts \ {alert_out'.alert_name} :
                   saved_job_alerts'[n] = saved_job_alerts[n]
            /\ alert_check_history' = alert_check_history
       /\ DeleteStep =>
            /\ alert_out'.result = (alert_out'.alert_name \in DOMAIN saved_job_alerts)
            /\ alert_out'.alert_name \notin DOMAIN saved_job_alerts'
            /\ \A n \in DOMAIN saved_job_alerts \ {alert_out'.alert_name} :
                   /\ n \in DOMAIN saved_job_alerts'
                   /\ saved_job_alerts'[n] = saved_job_alerts[n]
            /\ alert_check_history' = alert_check_history
       /\ CheckStep =>
            /\ saved_job_alerts' = saved_job_alerts
            /\ alert_out'.alert_name \in DOMAIN checks => ~ alert_out'.is_first_check]_vars

\* An alert that was checked and then deleted: the delete returned True, the
\* name is gone from the store and its check history is still there.
C30_Witness ==
    /\ alert_out.call = "delete_user_alert"
    /\ alert_out.result
    /\ alert_out.alert_name \notin DOMAIN saved_job_alerts
    /\ alert_out.alert_name \in DOMAIN alert_check_history
    /\ alert_check_history[alert_out.alert_name].last_matches # {}

----------------------------------------------------------------------------
(* The refresh time, checked under SpecRefresh *)

\* C28: last_data_refresh changes only in a call that retrieved a non-empty
\* data set and wrote it to the database; a call made less than
\* refresh_interval hours after the last refresh fetches nothing and writes
\* nothing; a failed or empty fetch, or a call with neither api_key nor url,
\* leaves last_data_refresh unchanged.
C28_RefreshTime ==
    [][/\ last_data_refresh' # last_data_refresh =>
            /\ refresh_out'.fetched
            /\ refresh_out'.retrieved \in { Frame(n) : n \in 1 .. MaxJobs }
            /\ database' > database
       /\ (clock' = clock /\ ~ refresh_out'.fetched) =>
            /\ database' = database
            /\ last_data_refresh' = last_data_refresh
       /\ (clock' = clock /\ refresh_out'.fetched /\ refresh_out'.retrieved \in {NoFrame, Frame(0)}) =>
            /\ database' = database
            /\ last_data_refresh' = last_data_refresh]_vars

----------------------------------------------------------------------------
(* The gate of the Predictive Analytics tab, checked under SpecTab *)

\* C24: whenever the tab has invoked plot_job_forecast, for a job type or for
\* all jobs, the series handed to the model has at least 2 monthly points.
C24_GateCoversFilteredSeries ==
    op = "forecast_tab" => Len(fc.endog) >= 2

----------------------------------------------------------------------------
(* The baseline of predict_job_type_growth, checked under Spec *)

\* The mean, as a rational, of the last k entries of a sequence of counts.
MeanOfLast(counts, k) == <<SumSeq(SubSeq(counts, Len(counts) - k + 1, Len(counts))), k>>

\* C25: for a job type with n >= 2 monthly data points, the reported current
\* count is the mean over its last min(3, n) calendar months, a calendar month
\* without a posting between its first and last month counting as 0.
C25_CurrentOverCalendarMonths ==
    GrowthDone =>
        \A i \in 1 .. Len(growth_rates) :
            LET mc == monthly_counts(df, growth_rates[i].job_type)
                n == Len(mc)
                calendar == Counts(resample_sum(mc))
            IN  n >= 2 =>
                    growth_rates[i].Current = Round1(MeanOfLast(calendar, Min({3, n})))

====
